---- MODULE Spec2Model ----
(***************************************************************************)
(* The Avalon game state machine of game_engine.py (AvalonGame),           *)
(* game_loop.py (LLMAgent, collect_votes, collect_quest_cards,             *)
(* run_quest_round, main) and the response parsers of agent_interface.py.  *)
(*                                                                         *)
(* Five specifications share the state and the update operators:           *)
(*   Spec          the whole game, one action per call of run_quest_round; *)
(*   SpecFine      the same game with run_quest_round unfolded into one    *)
(*                 step per Decision Provider call of its discussion, vote *)
(*                 and card loops;                                         *)
(*   SpecConstruct AvalonGame.__init__ over every outcome of its shuffles, *)
(*                 followed by the first round;                            *)
(*   SpecLive      the whole game to its end, however many rounds it       *)
(*                 takes, under the fairness of a running process;         *)
(*   SpecNames     AvalonGame.__init__ over player lists of several        *)
(*                 lengths, followed by the first round.                   *)
(* A response text is a sequence of tokens; a round record keeps every     *)
(* key of round_data except the per-player "votes" map, whose tally it     *)
(* keeps as vote_result.                                                   *)
(***************************************************************************)
EXTENDS Integers, Sequences, FiniteSets, TLC

VARIABLES
    pc,                     \* position of main / run_quest_round
    players,                \* AvalonGame.players
    roles,                  \* AvalonGame.roles
    seating_order,          \* AvalonGame.seating_order
    leader_index,           \* AvalonGame.leader_index
    current_leader,         \* AvalonGame.current_leader
    current_quest,          \* AvalonGame.current_quest
    quest_score,            \* AvalonGame.quest_score
    consecutive_rejections, \* AvalonGame.consecutive_rejections
    rounds,                 \* AvalonGame.rounds
    public_log,             \* public_game_log.json
    full_log,               \* full_game_log.json
    result,                 \* main: result of the last run_quest_round
    game_result,            \* main: game_result
    assassination_phases,   \* main: times the assassination branch ran
    proposed_team,          \* run_quest_round: proposed_team
    votes,                  \* collect_votes: votes
    vote_result,            \* run_quest_round: vote_result
    quest_cards,            \* collect_quest_cards: quest_cards
    iter,                   \* iterations done of the running collect loop
    response,               \* collect loops: response of the last call
    raised,                 \* LLMAgent.get_response: the last call raised
    speaker_order,          \* run_discussion_round: speaker_order
    conversation            \* conversation_log.txt: speakers of the last round

gameVars == <<players, roles, seating_order, leader_index, current_leader,
              current_quest, quest_score, consecutive_rejections, rounds,
              public_log, full_log>>
mainVars == <<pc, result, game_result, assassination_phases>>
localVars == <<proposed_team, votes, quest_cards, iter, response, raised,
               speaker_order>>
vars == <<gameVars, mainVars, localVars, vote_result, conversation>>

None == "None"

\* ------------------------------------------------------------------ bounds
\* Outcomes of random.shuffle taken for the role shuffle in Spec and SpecFine.
MaxRoleShuffles == 3
\* Outcomes of random.shuffle taken for the seating order in Spec and SpecFine.
MaxSeatShuffles == 1
\* Initial leader indices taken in Spec and SpecFine (0 .. MaxLeaderStart - 1).
MaxLeaderStart == 1
\* Calls of run_quest_round the main loop makes in Spec.
MaxRounds == 6
\* Calls of run_quest_round the main loop makes in SpecFine.
MaxFineRounds == 2
\* Initial leader indices taken in SpecLive (0 .. MaxLiveGames - 1).
MaxLiveGames == 1
\* Players a list given to AvalonGame in SpecNames has fewer than five.
MaxMissing == 1
\* Players a list given to AvalonGame in SpecNames has more than five.
MaxExtra == 1

\* ---------------------------------------------------------------- helpers
Range(s) == {s[i] : i \in 1..Len(s)}

Min(S) == CHOOSE x \in S : \A y \in S : x <= y

Count(f, v) == Cardinality({x \in DOMAIN f : f[x] = v})

\* list rotated left by k places
RotateLeft(s, k) ==
    [i \in 1..Len(s) |-> s[((i - 1 + k) % Len(s)) + 1]]

\* every order random.shuffle can leave a list in
AllShuffles(s) ==
    {[i \in 1..Len(s) |-> s[f[i]]] : f \in Permutations(1..Len(s))}

\* the orders taken where the whole game is explored
SomeShuffles(s, n) == {RotateLeft(s, k) : k \in 0..(n - 1)}

\* ------------------------------------------------- Decision Provider texts
\* re.IGNORECASE: a token and its lower-case form match the same pattern
Lower(t) ==
    CASE t = "<VOTE>" -> "<vote>"
      [] t = "</VOTE>" -> "</vote>"
      [] t = "<QUEST_CARD>" -> "<quest_card>"
      [] t = "</QUEST_CARD>" -> "</quest_card>"
      [] t = "APPROVE" -> "approve"
      [] t = "REJECT" -> "reject"
      [] t = "SUCCESS" -> "success"
      [] t = "FAIL" -> "fail"
      [] OTHER -> t

\* texts the Anthropic API may return to messages.create
ApiTexts ==
    { <<"prose", "<VOTE>", "approve", "</VOTE>">>,
      <<"<vote>", "REJECT", "</vote>", "<VOTE>", "approve", "</VOTE>">>,
      <<"<VOTE>", "abstain", "</VOTE>">>,
      <<"prose">>,
      <<"prose", "<QUEST_CARD>", "fail", "</QUEST_CARD>">>,
      <<"<quest_card>", "SUCCESS", "</quest_card>">> }

\* what one call of messages.create does: it returns a text or raises
ApiOutcomes ==
    {[raises |-> TRUE, text |-> <<>>]}
        \cup {[raises |-> FALSE, text |-> t] : t \in ApiTexts}

\* the text get_response returns from its except branch
ErrorDefault == <<"I approve of this proposal.", "<VOTE>", "approve", "</VOTE>">>

\* LLMAgent.get_response
get_response(o) == IF o.raises THEN ErrorDefault ELSE o.text

\* places where <open>(a|b)</open> matches, ignoring case
Matches(r, open, close, words) ==
    {i \in 1..(Len(r) - 2) :
        /\ Lower(r[i]) = open
        /\ Lower(r[i + 1]) \in words
        /\ Lower(r[i + 2]) = close}

\* AgentInterface.parse_vote
parse_vote(r) ==
    LET m == Matches(r, "<vote>", "</vote>", {"approve", "reject"})
    IN IF m # {} THEN Lower(r[Min(m) + 1]) ELSE "reject"

\* AgentInterface.parse_quest_card
parse_quest_card(r) ==
    LET m == Matches(r, "<quest_card>", "</quest_card>", {"success", "fail"})
    IN IF m # {} THEN Lower(r[Min(m) + 1]) ELSE "success"

\* collect_quest_cards: good players must play success
\* variant: the card is stored as parsed, for every role
EnforceCardB(role, card) == card
EnforceCard(role, card) ==
    IF role \notin {"Assassin", "Minion"} THEN "success" ELSE card

\* the vote collect_votes stores for one call of the provider
VoteOf(o) == parse_vote(get_response(o))

\* the card collect_quest_cards stores for one call of the provider
CardOf(role, o) == EnforceCard(role, parse_quest_card(get_response(o)))

\* every votes dict collect_votes can return: one stored vote per player
Ballots(ps) == [Range(ps) -> {VoteOf(o) : o \in ApiOutcomes}]

\* every quest_cards dict collect_quest_cards can return: one stored card
\* per team member
CardHands(rl, team) ==
    {h \in [Range(team) -> {"success", "fail"}] :
        \A p \in Range(team) : h[p] \in {CardOf(rl[p], o) : o \in ApiOutcomes}}

\* run_quest_round: count votes
\* variant: the comparison of the two counts turned round
VoteResultB(v) ==
    IF Count(v, "approve") < Count(v, "reject") THEN "approved" ELSE "rejected"
VoteResult(v) ==
    IF Count(v, "approve") > Count(v, "reject") THEN "approved" ELSE "rejected"

\* run_quest_round: count results
NoOutcome == [success_cards |-> 0, fail_cards |-> 0, result |-> None]

\* variant: a quest fails on two fail cards only
QuestOutcomeB(c) ==
    [success_cards |-> Count(c, "success"),
     fail_cards |-> Count(c, "fail"),
     result |-> IF Count(c, "fail") <= 1 THEN "success" ELSE "fail"]
QuestOutcome(c) ==
    [success_cards |-> Count(c, "success"),
     fail_cards |-> Count(c, "fail"),
     result |-> IF Count(c, "fail") = 0 THEN "success" ELSE "fail"]


\* ------------------------------------------------------------- AvalonGame
DefaultPlayers == <<"Player1", "Player2", "Player3", "Player4", "Player5">>

\* run_quest_round: the num_turns it passes to run_discussion_round
NumTurns == 3

\* AvalonGame.__init__: quest requirements for 5 players
quest_requirements == <<2, 3, 2, 3, 3>>

\* AvalonGame._assign_roles: the role written at each place of the shuffle
\* variant: the third write gives Assassin
RoleTableB == <<"Merlin", "Loyal Servant", "Assassin", "Assassin", "Minion">>
RoleTable == <<"Merlin", "Loyal Servant", "Loyal Servant", "Assassin", "Minion">>

\* AvalonGame._assign_roles, for the shuffled list: a later write to the same
\* key replaces an earlier one
assign_roles(shuffled) ==
    [p \in {shuffled[i] : i \in 1..Len(RoleTable)} |->
        LET last == CHOOSE i \in 1..Len(RoleTable) :
                        /\ shuffled[i] = p
                        /\ \A j \in 1..Len(RoleTable) : shuffled[j] = p => j <= i
        IN RoleTable[last]]

\* AvalonGame.get_initial_knowledge for the roles rl of the players ps: the
\* players each player knows about (a list without repetition, kept as a set)
\* variant: an evil player's list is not filtered for the player itself
get_initial_knowledgeB(rl, ps) ==
    LET evil_players == {p \in DOMAIN rl : rl[p] \in {"Assassin", "Minion"}}
    IN [player \in Range(ps) |->
            IF player \in DOMAIN rl /\ rl[player] = "Merlin"
            THEN evil_players
            ELSE IF player \in evil_players
                 THEN evil_players
                 ELSE {}]
get_initial_knowledge(rl, ps) ==
    LET evil_players == {p \in DOMAIN rl : rl[p] \in {"Assassin", "Minion"}}
    IN [player \in Range(ps) |->
            IF player \in DOMAIN rl /\ rl[player] = "Merlin"
            THEN evil_players
            ELSE IF player \in evil_players
                 THEN {p \in evil_players : p # player}
                 ELSE {}]

\* AvalonGame.__init__ and the start of main
Construct(player_names, role_shuffle, seat_shuffle, leader) ==
    /\ pc = "start"
    /\ players' = player_names
    /\ roles' = assign_roles(role_shuffle)
    /\ seating_order' = seat_shuffle
    /\ leader_index' = leader
    /\ current_leader' = seat_shuffle[leader + 1]
    /\ current_quest' = 1
    /\ quest_score' = [good |-> 0, evil |-> 0]
    /\ consecutive_rejections' = 0
    /\ rounds' = <<>>
    /\ full_log' = [initial_knowledge |->
                        get_initial_knowledge(assign_roles(role_shuffle),
                                              player_names),
                    rounds |-> <<>>,
                    quest_score |-> [good |-> 0, evil |-> 0],
                    assassination_phase |-> None,
                    game_result |-> None,
                    game_status |-> "in_progress"]
    /\ public_log' = [rounds |-> <<>>,
                      quest_score |-> [good |-> 0, evil |-> 0],
                      consecutive_rejections |-> 0,
                      game_status |-> "in_progress"]
    /\ pc' = "loop"
    /\ game_result' = None
    /\ UNCHANGED <<result, assassination_phases, localVars, vote_result,
                   conversation>>

\* AvalonGame.rotate_leader
\* variant: the index wraps round one seat early
rotate_leaderB ==
    /\ leader_index' = (leader_index + 1) % (Len(seating_order) - 1)
    /\ current_leader' =
           seating_order[((leader_index + 1) % (Len(seating_order) - 1)) + 1]
rotate_leader ==
    /\ leader_index' = (leader_index + 1) % Len(seating_order)
    /\ current_leader' = seating_order[((leader_index + 1) % Len(seating_order)) + 1]

\* AvalonGame.get_speaker_order
\* variant: the two slices joined the other way round
get_speaker_orderB ==
    SubSeq(seating_order, 1, leader_index)
        \o SubSeq(seating_order, leader_index + 1, Len(seating_order))
get_speaker_order ==
    SubSeq(seating_order, leader_index + 1, Len(seating_order))
        \o SubSeq(seating_order, 1, leader_index)

\* AvalonGame.update_public_log
update_public_log(round_data) ==
    public_log' = [public_log EXCEPT
                      !.rounds = Append(@, round_data),
                      !.quest_score = quest_score',
                      !.consecutive_rejections = consecutive_rejections']

\* AvalonGame.update_full_log
update_full_log(round_data) ==
    full_log' = [full_log EXCEPT
                    !.rounds = Append(@, round_data),
                    !.quest_score = quest_score']


\* ------------------------------------------------------------- game_loop
\* run_quest_round: round_data before the vote is acted on
RoundData(team, vr) ==
    [round_number |-> Len(rounds) + 1,
     quest_number |-> current_quest,
     team_size_required |-> quest_requirements[current_quest],
     leader |-> current_leader,
     proposed_team |-> team,
     vote_result |-> vr,
     consecutive_rejections |->
         IF vr = "rejected" THEN consecutive_rejections + 1 ELSE 0,
     quest_outcome |-> NoOutcome]

\* run_quest_round: the placeholder proposal, the first seats of the table
\* variant: the first two seats, whatever the quest requires
ProposedTeamB == SubSeq(seating_order, 1, 2)
ProposedTeam == SubSeq(seating_order, 1, quest_requirements[current_quest])

\* run_quest_round: check for auto-loss (5 rejections)
\* variant: the limit taken as reached at 4
RejectionLimitReachedB(c) == c >= 4
\* variant: the limit taken as reached at 6
RejectionLimitReachedC(c) == c >= 6
RejectionLimitReached(c) == c >= 5

\* run_quest_round: the counter after an approved vote
\* variant: the approval leaves the counter as it is
ResetRejectionsB(c) == c
ResetRejections(c) == 0

\* run_quest_round: check win conditions
\* variant: good taken to have won at two quests
WinCheckB(score) ==
    IF score.good >= 2 THEN "good_wins_quests"
    ELSE IF score.evil >= 3 THEN "evil_wins"
    ELSE "continue"
\* variant: good taken to have won at four quests
WinCheckC(score) ==
    IF score.good >= 4 THEN "good_wins_quests"
    ELSE IF score.evil >= 3 THEN "evil_wins"
    ELSE "continue"
WinCheck(score) ==
    IF score.good >= 3 THEN "good_wins_quests"
    ELSE IF score.evil >= 3 THEN "evil_wins"
    ELSE "continue"

\* run_quest_round: update quest score
\* variant: a failed quest adds two to evil
UpdateScoreB(score, res) ==
    IF res = "success"
    THEN [score EXCEPT !.good = @ + 1]
    ELSE [score EXCEPT !.evil = @ + 2]
UpdateScore(score, res) ==
    IF res = "success"
    THEN [score EXCEPT !.good = @ + 1]
    ELSE [score EXCEPT !.evil = @ + 1]

\* main: the body of the while loop after run_quest_round has returned r
MainLoop(r) ==
    /\ result' = r
    /\ IF r \in {"rejected", "continue"}
       THEN /\ pc' = "loop"
            /\ game_result' = game_result
       ELSE /\ pc' = "end_game"
            /\ game_result' = r
    /\ UNCHANGED assassination_phases

\* run_quest_round from "if vote_result == rejected" to its return
\* variant: a rejection below the limit does not rotate the leader
RejectedBranchB(round_data) ==
    /\ UNCHANGED <<players, roles, seating_order, current_quest, quest_score,
                   full_log>>
    /\ consecutive_rejections' = consecutive_rejections + 1
    /\ IF RejectionLimitReached(consecutive_rejections + 1)
       THEN /\ UNCHANGED <<leader_index, current_leader, rounds, public_log>>
            /\ MainLoop("evil_wins")
       ELSE /\ UNCHANGED <<leader_index, current_leader>>
            /\ rounds' = Append(rounds, round_data)
            /\ update_public_log(round_data)
            /\ MainLoop("rejected")
RejectedBranch(round_data) ==
    /\ UNCHANGED <<players, roles, seating_order, current_quest, quest_score,
                   full_log>>
    /\ consecutive_rejections' = consecutive_rejections + 1
    /\ IF RejectionLimitReached(consecutive_rejections + 1)
       THEN /\ UNCHANGED <<leader_index, current_leader, rounds, public_log>>
            /\ MainLoop("evil_wins")
       ELSE /\ rotate_leader
            /\ rounds' = Append(rounds, round_data)
            /\ update_public_log(round_data)
            /\ MainLoop("rejected")

\* run_quest_round from the count of the quest cards to its return
\* variant: the win conditions are checked on the score before its update
QuestBranchB(round_data, cards) ==
    LET outcome == QuestOutcome(cards)
        done == [round_data EXCEPT !.quest_outcome = outcome]
        full == done @@ [quest_cards_played |-> cards]
    IN /\ quest_score' = UpdateScore(quest_score, outcome.result)
       /\ rounds' = Append(rounds, done)
       /\ update_public_log(done)
       /\ update_full_log(full)
       /\ current_quest' = current_quest + 1
       /\ rotate_leader
       /\ MainLoop(WinCheck(quest_score))
       /\ UNCHANGED <<players, roles, seating_order>>
QuestBranch(round_data, cards) ==
    LET outcome == QuestOutcome(cards)
        done == [round_data EXCEPT !.quest_outcome = outcome]
        full == done @@ [quest_cards_played |-> cards]
    IN /\ quest_score' = UpdateScore(quest_score, outcome.result)
       /\ rounds' = Append(rounds, done)
       /\ update_public_log(done)
       /\ update_full_log(full)
       /\ current_quest' = current_quest + 1
       /\ rotate_leader
       /\ MainLoop(WinCheck(quest_score'))
       /\ UNCHANGED <<players, roles, seating_order>>

\* run_discussion_round: the speakers of its num_turns passes over order, as
\* save_conversation_message writes them under the round header
Discussion(order, num_turns) ==
    [i \in 1..(num_turns * Len(order)) |-> order[((i - 1) % Len(order)) + 1]]

\* run_quest_round, from its first line to the return of its result to main
run_quest_round ==
    /\ pc = "loop"
    /\ conversation' = Discussion(get_speaker_order, NumTurns)
    /\ \E vr \in {VoteResult(v) : v \in Ballots(players)} :
          /\ vote_result' = vr
          /\ IF vr = "rejected"
             THEN RejectedBranch(RoundData(ProposedTeam, "rejected"))
             ELSE /\ consecutive_rejections' =
                         ResetRejections(consecutive_rejections)
                  /\ \E cards \in CardHands(roles, ProposedTeam) :
                        QuestBranch(RoundData(ProposedTeam, "approved"), cards)
    /\ UNCHANGED localVars

\* main: one pass of the while loop, the whole of run_quest_round
RunQuestRound ==
    /\ Len(rounds) < MaxRounds
    /\ run_quest_round

\* main: handle end game
HandleEndGame ==
    /\ pc = "end_game"
    /\ pc' = "complete"
    /\ assassination_phases' =
           IF game_result = "good_wins_quests"
           THEN assassination_phases + 1
           ELSE assassination_phases
    /\ UNCHANGED <<gameVars, result, game_result, localVars, vote_result,
                   conversation>>

\* the process before AvalonGame is constructed
Init ==
    /\ pc = "start"
    /\ players = <<>>
    /\ roles = <<>>
    /\ seating_order = <<>>
    /\ leader_index = 0
    /\ current_leader = None
    /\ current_quest = 0
    /\ quest_score = [good |-> 0, evil |-> 0]
    /\ consecutive_rejections = 0
    /\ rounds = <<>>
    /\ public_log = [rounds |-> <<>>,
                     quest_score |-> [good |-> 0, evil |-> 0],
                     consecutive_rejections |-> 0,
                     game_status |-> None]
    /\ full_log = [initial_knowledge |-> <<>>,
                   rounds |-> <<>>,
                   quest_score |-> [good |-> 0, evil |-> 0],
                   assassination_phase |-> None,
                   game_result |-> None,
                   game_status |-> None]
    /\ result = None
    /\ game_result = None
    /\ assassination_phases = 0
    /\ proposed_team = <<>>
    /\ votes = <<>>
    /\ vote_result = None
    /\ quest_cards = <<>>
    /\ iter = 0
    /\ response = <<>>
    /\ raised = FALSE
    /\ speaker_order = <<>>
    /\ conversation = <<>>

\* AvalonGame() in main, over the shuffles and leaders explored with the game
ConstructSome ==
    /\ pc = "start"
    /\ \E rs \in SomeShuffles(DefaultPlayers, MaxRoleShuffles),
          ss \in SomeShuffles(DefaultPlayers, MaxSeatShuffles),
          l \in 0..(MaxLeaderStart - 1) :
           Construct(DefaultPlayers, rs, ss, l)

Next == ConstructSome \/ RunQuestRound \/ HandleEndGame

Spec == Init /\ [][Next]_vars

\* AvalonGame() in main, over every outcome of the two shuffles and of the
\* draw of the first leader
ConstructAll ==
    /\ pc = "start"
    /\ \E rs \in AllShuffles(DefaultPlayers),
          ss \in AllShuffles(DefaultPlayers),
          l \in 0..(Len(DefaultPlayers) - 1) :
           Construct(DefaultPlayers, rs, ss, l)

\* main: the first pass of the while loop
FirstRound ==
    /\ Len(rounds) = 0
    /\ RunQuestRound

NextConstruct == ConstructAll \/ FirstRound

SpecConstruct == Init /\ [][NextConstruct]_vars

\* AvalonGame() in main, over the games played to their end: the role shuffle
\* puts no evil player on a team of two and one on a team of three, so that
\* quests both succeed and fail
ConstructLive ==
    /\ pc = "start"
    /\ \E l \in 0..(MaxLiveGames - 1) :
          Construct(DefaultPlayers,
                    RotateLeft(DefaultPlayers, Len(DefaultPlayers) - 1),
                    DefaultPlayers,
                    l)

NextLive == ConstructLive \/ run_quest_round \/ HandleEndGame

\* main as a running process: a step that can be taken is taken
SpecLive == Init /\ [][NextLive]_vars /\ WF_vars(NextLive)

\* names for the player_names given to AvalonGame
PlayerNames == DefaultPlayers \o <<"Player6", "Player7">>

\* the player_names given to AvalonGame: lists of five names, fewer and more
NameLists ==
    {SubSeq(PlayerNames, 1, n) :
        n \in (Len(DefaultPlayers) - MaxMissing)..(Len(DefaultPlayers) + MaxExtra)}

\* AvalonGame(player_names): _assign_roles indexes the first five places of
\* the shuffled list, which raises IndexError on a shorter list; there is no
\* other check of the length, and the first or the last seat leads
ConstructNamed ==
    /\ pc = "start"
    /\ \E names \in NameLists :
          IF Len(names) < Len(RoleTable)
          THEN /\ pc' = "error"
               /\ UNCHANGED <<gameVars, result, game_result,
                              assassination_phases, localVars, vote_result,
                              conversation>>
          ELSE \E rs \in AllShuffles(names), l \in {0, Len(names) - 1} :
                  Construct(names, rs, names, l)

\* main: the first pass of the while loop, every player having a role
NamedFirstRound ==
    /\ Range(players) \subseteq DOMAIN roles
    /\ FirstRound

\* run_discussion_round with a player that has no role: get_player_role_info
\* raises KeyError when that player is the speaker, after the speakers
\* before it were logged
DiscussionRaises ==
    /\ pc = "loop"
    /\ ~(Range(players) \subseteq DOMAIN roles)
    /\ LET first == Min({i \in 1..Len(get_speaker_order) :
                             get_speaker_order[i] \notin DOMAIN roles})
       IN conversation' = SubSeq(get_speaker_order, 1, first - 1)
    /\ pc' = "error"
    /\ UNCHANGED <<gameVars, result, game_result, assassination_phases,
                   localVars, vote_result>>

NextNames == ConstructNamed \/ NamedFirstRound \/ DiscussionRaises

SpecNames == Init /\ [][NextNames]_vars

\* ------------------------------------------- run_quest_round, step by step
\* the locals of run_quest_round once it has returned
LocalsGone ==
    /\ proposed_team' = <<>>
    /\ votes' = <<>>
    /\ quest_cards' = <<>>
    /\ iter' = 0
    /\ response' = <<>>
    /\ raised' = FALSE
    /\ speaker_order' = <<>>

\* run_quest_round up to the loops of run_discussion_round: the round
\* header and the speaker order
StartRound ==
    /\ pc = "loop"
    /\ Len(rounds) < MaxFineRounds
    /\ pc' = "discussion"
    /\ conversation' = <<>>
    /\ speaker_order' = get_speaker_order
    /\ iter' = 0
    /\ UNCHANGED <<gameVars, result, game_result, assassination_phases,
                   proposed_team, votes, quest_cards, response, raised,
                   vote_result>>

\* run_discussion_round: one pass of "for speaker in speaker_order", in turn
\* iter \div Len(speaker_order)
Speak ==
    /\ pc = "discussion"
    /\ iter < NumTurns * Len(speaker_order)
    /\ \E o \in ApiOutcomes :
          /\ response' = get_response(o)
          /\ raised' = o.raises
    /\ conversation' =
           Append(conversation, speaker_order[(iter % Len(speaker_order)) + 1])
    /\ iter' = iter + 1
    /\ UNCHANGED <<gameVars, mainVars, proposed_team, votes, quest_cards,
                   speaker_order, vote_result>>

\* run_quest_round: run_discussion_round has returned; the proposal, up to
\* the call of collect_votes
Propose ==
    /\ pc = "discussion"
    /\ iter = NumTurns * Len(speaker_order)
    /\ pc' = "collect_votes"
    /\ proposed_team' = ProposedTeam
    /\ votes' = <<>>
    /\ iter' = 0
    /\ response' = <<>>
    /\ raised' = FALSE
    /\ speaker_order' = <<>>
    /\ UNCHANGED <<gameVars, result, game_result, assassination_phases,
                   quest_cards, vote_result, conversation>>

\* collect_votes: one pass of "for player in game.players"
CollectVote ==
    /\ pc = "collect_votes"
    /\ iter < Len(players)
    /\ \E o \in ApiOutcomes :
          /\ response' = get_response(o)
          /\ raised' = o.raises
          /\ votes' = (players[iter + 1] :> parse_vote(get_response(o))) @@ votes
    /\ iter' = iter + 1
    /\ UNCHANGED <<gameVars, mainVars, proposed_team, quest_cards,
                   speaker_order, vote_result, conversation>>

\* run_quest_round: collect_votes has returned; count votes
\* variant: the votes are counted once three players have voted
CountVotesB ==
    /\ pc = "collect_votes"
    /\ iter >= 3
    /\ vote_result' = VoteResult(votes)
    /\ pc' = "voted"
    /\ UNCHANGED <<gameVars, result, game_result, assassination_phases,
                   localVars, conversation>>
CountVotes ==
    /\ pc = "collect_votes"
    /\ iter = Len(players)
    /\ vote_result' = VoteResult(votes)
    /\ pc' = "voted"
    /\ UNCHANGED <<gameVars, result, game_result, assassination_phases,
                   localVars, conversation>>

\* run_quest_round: the rejected vote
ActOnRejected ==
    /\ pc = "voted"
    /\ vote_result = "rejected"
    /\ RejectedBranch(RoundData(proposed_team, vote_result))
    /\ LocalsGone
    /\ UNCHANGED <<vote_result, conversation>>

\* run_quest_round: the approved vote, up to the call of collect_quest_cards
ActOnApproved ==
    /\ pc = "voted"
    /\ vote_result = "approved"
    /\ consecutive_rejections' = ResetRejections(consecutive_rejections)
    /\ pc' = "collect_quest_cards"
    /\ quest_cards' = <<>>
    /\ iter' = 0
    /\ UNCHANGED <<players, roles, seating_order, leader_index, current_leader,
                   current_quest, quest_score, rounds, public_log, full_log,
                   result, game_result, assassination_phases,
                   proposed_team, votes, response, raised, speaker_order,
                   vote_result, conversation>>

\* collect_quest_cards: one pass of "for player in team_members"
CollectCard ==
    /\ pc = "collect_quest_cards"
    /\ iter < Len(proposed_team)
    /\ \E o \in ApiOutcomes :
          /\ response' = get_response(o)
          /\ raised' = o.raises
          /\ quest_cards' =
                 (proposed_team[iter + 1] :>
                      EnforceCard(roles[proposed_team[iter + 1]],
                                  parse_quest_card(get_response(o))))
                 @@ quest_cards
    /\ iter' = iter + 1
    /\ UNCHANGED <<gameVars, mainVars, proposed_team, votes, speaker_order,
                   vote_result, conversation>>

\* run_quest_round: collect_quest_cards has returned; the rest of the round
FinishQuest ==
    /\ pc = "collect_quest_cards"
    /\ iter = Len(proposed_team)
    /\ consecutive_rejections' = consecutive_rejections
    /\ QuestBranch(RoundData(proposed_team, vote_result), quest_cards)
    /\ LocalsGone
    /\ UNCHANGED <<vote_result, conversation>>

NextFine ==
    \/ ConstructSome
    \/ StartRound
    \/ Speak
    \/ Propose
    \/ CollectVote
    \/ CountVotes
    \/ ActOnRejected
    \/ ActOnApproved
    \/ CollectCard
    \/ FinishQuest

SpecFine == Init /\ [][NextFine]_vars

\* ----------------------------------------------------------------- claims
Good == {"Merlin", "Loyal Servant"}
Evil == {"Assassin", "Minion"}

\* the rounds of a history whose quest had the given result
QuestsWith(h, res) ==
    {i \in 1..Len(h) : h[i].quest_outcome.result = res}

\* this step appended a round whose quest had the given result
QuestDone(res) ==
    /\ Len(rounds') = Len(rounds) + 1
    /\ rounds'[Len(rounds')].quest_outcome.result = res

\* C1: the game ends as an evil win by rejections exactly when
\* consecutive_rejections is 5, after five rejected proposals in a row (the
\* four before the last are the last four records, all rejected); there is no
\* such win below 5 and no further round at 5.
C1_RejectionWinExactlyAtFive ==
    /\ consecutive_rejections <= 5
    /\ (game_result = "evil_wins" /\ quest_score.evil < 3)
           <=> consecutive_rejections = 5
    /\ consecutive_rejections = 5 =>
           /\ pc \in {"end_game", "complete"}
           /\ result = "evil_wins"
           /\ vote_result = "rejected"
           /\ Len(rounds) >= 4
           /\ \A i \in (Len(rounds) - 3)..Len(rounds) :
                  rounds[i].vote_result = "rejected"

\* C1 happens: a game that had an approved proposal ended by five rejections
C1_Witness ==
    /\ pc = "complete"
    /\ game_result = "evil_wins"
    /\ consecutive_rejections = 5
    /\ quest_score.good + quest_score.evil = 1

\* C2 as claimed: once good has three quests the Assassin has named a target
\* and the final result is an evil win iff the target is Merlin.
C2_AssassinTargetDecides ==
    (pc = "complete" /\ quest_score.good = 3) =>
        \E target \in Range(players) :
            /\ full_log.assassination_phase = target
            /\ roles[target] = "Merlin" => game_result = "evil_wins"
            /\ roles[target] # "Merlin" =>
                   game_result \in {"good_wins", "good_wins_quests"}

\* C3: the assassination branch runs at most once, only when good has three
\* quests, and it has run once the game of a good quest win is complete; when
\* evil has three quests the loop is left with an evil win and the branch
\* never runs.
C3_AssassinationOnlyAfterGoodWin ==
    /\ assassination_phases <= 1
    /\ assassination_phases = 1 =>
           /\ quest_score.good = 3
           /\ game_result = "good_wins_quests"
    /\ (pc = "complete" /\ quest_score.good = 3) => assassination_phases = 1
    /\ quest_score.evil = 3 =>
           /\ pc \in {"end_game", "complete"}
           /\ game_result = "evil_wins"
           /\ assassination_phases = 0

\* C3 happens: a completed game in which the assassination branch ran
C3_Witness ==
    /\ pc = "complete"
    /\ assassination_phases = 1
    /\ quest_score.evil > 0

\* C5: in every record of a played quest the result is fail iff some card is
\* fail, the two counts add up to the team size, and fail_cards is the number
\* of fail cards.
C5_QuestResultFromCards ==
    \A i \in 1..Len(full_log.rounds) :
        LET r == full_log.rounds[i]
            cards == r.quest_cards_played
            fails == {p \in DOMAIN cards : cards[p] = "fail"}
        IN /\ DOMAIN cards = Range(r.proposed_team)
           /\ r.quest_outcome.result = (IF fails # {} THEN "fail" ELSE "success")
           /\ r.quest_outcome.fail_cards = Cardinality(fails)
           /\ r.quest_outcome.success_cards + r.quest_outcome.fail_cards
                  = Len(r.proposed_team)
           /\ Len(r.proposed_team) = r.team_size_required

\* C5 happens: a team of three played one fail card and the quest failed
C5_Witness ==
    \E i \in 1..Len(full_log.rounds) :
        /\ full_log.rounds[i].quest_outcome.fail_cards = 1
        /\ full_log.rounds[i].quest_outcome.success_cards = 2
        /\ full_log.rounds[i].quest_outcome.result = "fail"

\* C8 as claimed: good gains one per successful quest and nothing else; evil
\* gains one per failed quest and one when the fifth consecutive rejection is
\* reached.
C8_ScoreAlsoOnRejectionLimit ==
    [][/\ quest_score'.good =
              quest_score.good + (IF QuestDone("success") THEN 1 ELSE 0)
       /\ quest_score'.evil =
              quest_score.evil
                  + (IF QuestDone("fail") THEN 1 ELSE 0)
                  + (IF consecutive_rejections' = 5 /\ consecutive_rejections = 4
                     THEN 1 ELSE 0)]_vars

\* C8 amended: good gains exactly one per successful quest and evil exactly
\* one per failed quest, and nothing else changes the score: the step that
\* reaches five consecutive rejections leaves it as it was.
C8_ScoreOnlyFromQuests ==
    [][/\ quest_score'.good =
              quest_score.good + (IF QuestDone("success") THEN 1 ELSE 0)
       /\ quest_score'.evil =
              quest_score.evil + (IF QuestDone("fail") THEN 1 ELSE 0)
       /\ (consecutive_rejections' = 5 /\ consecutive_rejections = 4)
              => quest_score' = quest_score]_vars

\* C8 happens: the rejection limit was reached after one failed quest, and
\* evil holds that one point only
C8_Witness ==
    /\ consecutive_rejections = 5
    /\ Cardinality(QuestsWith(rounds, "fail")) = 1
    /\ quest_score = [good |-> 0, evil |-> 1]

\* C9: consecutive_rejections stays in 0..5; a round whose proposal is
\* rejected adds exactly one, a round whose proposal is approved leaves it 0,
\* and no other step changes it.
C9_RejectionCounterSteps ==
    /\ [](consecutive_rejections \in 0..5)
    /\ [][IF pc = "loop"
          THEN /\ vote_result' = "rejected" =>
                      consecutive_rejections' = consecutive_rejections + 1
               /\ vote_result' = "approved" => consecutive_rejections' = 0
               /\ vote_result' \in {"rejected", "approved"}
          ELSE consecutive_rejections' = consecutive_rejections]_vars

\* C9 happens: an approval right after two rejections has reset the counter
C9_Witness ==
    /\ Len(rounds) >= 3
    /\ rounds[Len(rounds) - 2].vote_result = "rejected"
    /\ rounds[Len(rounds) - 1].vote_result = "rejected"
    /\ rounds[Len(rounds) - 1].consecutive_rejections = 2
    /\ rounds[Len(rounds)].vote_result = "approved"
    /\ consecutive_rejections = 0


\* C4: when all five players have voted approve or reject, the vote result is
\* approved iff the approve votes outnumber the reject votes, which is three
\* approves or more; otherwise it is rejected.
C4_StrictMajorityApproves ==
    pc \in {"voted", "collect_quest_cards"} =>
        LET approves == {p \in DOMAIN votes : votes[p] = "approve"}
            rejects == {p \in DOMAIN votes : votes[p] = "reject"}
        IN /\ DOMAIN votes = Range(players)
           /\ approves \cup rejects = Range(players)
           /\ vote_result \in {"approved", "rejected"}
           /\ vote_result = "approved"
                  <=> Cardinality(approves) > Cardinality(rejects)
           /\ vote_result = "approved" <=> Cardinality(approves) >= 3

\* C4 happens: three approves against two rejects gave approved
C4_Witness ==
    /\ pc = "voted"
    /\ Count(votes, "approve") = 3
    /\ Count(votes, "reject") = 2
    /\ vote_result = "approved"

\* the evil players of a team
EvilOn(team) == {p \in Range(team) : roles[p] \in Evil}

\* C6: the card stored for a Merlin or Loyal Servant is success whatever the
\* response says; so a quest of a team without Assassin and Minion succeeds and
\* fail_cards is at most the number of evil players on the team.
C6_GoodPlayersPlaySuccess ==
    /\ \A p \in DOMAIN quest_cards :
           roles[p] \in Good => quest_cards[p] = "success"
    /\ \A i \in 1..Len(full_log.rounds) :
           LET r == full_log.rounds[i]
           IN /\ \A p \in DOMAIN r.quest_cards_played :
                     roles[p] \in Good => r.quest_cards_played[p] = "success"
              /\ EvilOn(r.proposed_team) = {} =>
                     r.quest_outcome.result = "success"
              /\ r.quest_outcome.fail_cards
                     <= Cardinality(EvilOn(r.proposed_team))

\* C6 happens: a good team member answered with a fail card and success was
\* stored for them
C6_Witness ==
    /\ pc = "collect_quest_cards"
    /\ iter > 0
    /\ roles[proposed_team[iter]] \in Good
    /\ ~raised
    /\ parse_quest_card(response) = "fail"
    /\ quest_cards[proposed_team[iter]] = "success"

\* C7 as claimed: after a call of the provider that raised, or whose response
\* has no parsable decision, the vote stored is reject and the card stored is
\* success.
C7_SafeDefaults ==
    /\ (/\ pc = "collect_votes"
        /\ iter > 0
        /\ \/ raised
           \/ Matches(response, "<vote>", "</vote>", {"approve", "reject"}) = {})
           => votes[players[iter]] = "reject"
    /\ (/\ pc = "collect_quest_cards"
        /\ iter > 0
        /\ \/ raised
           \/ Matches(response, "<quest_card>", "</quest_card>",
                      {"success", "fail"}) = {})
           => quest_cards[proposed_team[iter]] = "success"

\* the number of players holding a role
Holders(role) == Cardinality({p \in DOMAIN roles : roles[p] = role})

\* C10: for every outcome of the shuffles each of the five players has one
\* role, with one Merlin, one Assassin, one Minion and two Loyal Servants, and
\* no step after the construction changes the assignment.
C10_RolesFixedAndCounted ==
    /\ [](pc # "start" =>
             /\ DOMAIN roles = Range(players)
             /\ Cardinality(DOMAIN roles) = 5
             /\ \A p \in DOMAIN roles : roles[p] \in Good \cup Evil
             /\ Holders("Merlin") = 1
             /\ Holders("Assassin") = 1
             /\ Holders("Minion") = 1
             /\ Holders("Loyal Servant") = 2)
    /\ [][pc # "start" => roles' = roles]_vars

\* C10 happens: a round was played under an assignment no rotation of the
\* player list gives
C10_Witness ==
    /\ Len(rounds) = 1
    /\ roles["Player4"] = "Merlin"
    /\ roles["Player2"] = "Assassin"
    /\ roles["Player1"] = "Minion"

\* the players of the game that hold the given role
WithRole(r) == {p \in Range(players) : roles[p] = r}

\* C11: in every constructed game the initial knowledge gives the Assassin
\* exactly the Minion, the Minion exactly the Assassin, Merlin exactly the
\* Assassin and the Minion, and each Loyal Servant nothing; nobody is in
\* their own knowledge set.
C11_InitialKnowledge ==
    pc # "start" =>
        /\ DOMAIN full_log.initial_knowledge = Range(players)
        /\ Cardinality(WithRole("Assassin")) = 1
        /\ Cardinality(WithRole("Minion")) = 1
        /\ \A p \in Range(players) :
              /\ roles[p] = "Assassin" =>
                     full_log.initial_knowledge[p] = WithRole("Minion")
              /\ roles[p] = "Minion" =>
                     full_log.initial_knowledge[p] = WithRole("Assassin")
              /\ roles[p] = "Merlin" =>
                     full_log.initial_knowledge[p] =
                         WithRole("Assassin") \cup WithRole("Minion")
              /\ roles[p] = "Loyal Servant" =>
                     full_log.initial_knowledge[p] = {}
              /\ p \notin full_log.initial_knowledge[p]

\* C11 happens: a game whose Merlin knows the two evil players, who know each
\* other, and whose Loyal Servants know nobody
C11_Witness ==
    /\ pc = "loop"
    /\ roles["Player3"] = "Merlin"
    /\ roles["Player5"] = "Assassin"
    /\ roles["Player1"] = "Minion"
    /\ full_log.initial_knowledge["Player3"] = {"Player1", "Player5"}
    /\ full_log.initial_knowledge["Player5"] = {"Player1"}
    /\ full_log.initial_knowledge["Player1"] = {"Player5"}
    /\ full_log.initial_knowledge["Player2"] = {}
    /\ full_log.initial_knowledge["Player4"] = {}

\* the index of a seat's player in the seating order, counted from 0
SeatIndex(p) == CHOOSE i \in 0..(Len(seating_order) - 1) : seating_order[i + 1] = p

\* C12: a step that rotates the leader (one that appends a round record) moves
\* leader_index on by one modulo 5 and makes current_leader the player at
\* that seat; no other step after the construction changes either; so the
\* leader of every recorded round is the first leader moved on one seat per
\* earlier record, and is the leader again five records later.
C12_LeaderRotation ==
    /\ [](pc # "start" =>
            /\ leader_index \in 0..4
            /\ current_leader = seating_order[leader_index + 1]
            /\ \A i \in 1..Len(rounds) :
                  /\ rounds[i].leader =
                         seating_order[((SeatIndex(rounds[1].leader) + i - 1) % 5) + 1]
                  /\ i + 5 <= Len(rounds) => rounds[i + 5].leader = rounds[i].leader
                  /\ i + 1 <= Len(rounds) => rounds[i + 1].leader # rounds[i].leader
            /\ Len(rounds) > 0 =>
                   leader_index = (SeatIndex(rounds[1].leader) + Len(rounds)) % 5)
    /\ [][pc # "start" =>
            IF Len(rounds') = Len(rounds) + 1
            THEN /\ leader_index' = (leader_index + 1) % 5
                 /\ current_leader' = seating_order[leader_index' + 1]
            ELSE /\ leader_index' = leader_index
                 /\ current_leader' = current_leader]_vars

\* C12 happens: the leader has gone round the table more than twice and the
\* eleventh round has the leader of the first and of the sixth
C12_Witness ==
    /\ Len(rounds) >= 11
    /\ rounds[11].leader = rounds[1].leader
    /\ rounds[6].leader = rounds[1].leader
    /\ rounds[5].leader = seating_order[5]
    /\ leader_index = Len(rounds) % 5

\* C13: inside a round the speaker order starts at current_leader, holds
\* every player exactly once and has seating_order[(leader_index + k) mod 5]
\* at place k (counted from 0); the speakers of the discussion so far are in
\* this order, turn after turn, and all three turns have been held when the
\* proposal is made.
C13_SpeakerOrder ==
    /\ pc = "discussion" =>
          /\ speaker_order[1] = current_leader
          /\ Len(speaker_order) = 5
          /\ Range(speaker_order) = Range(players)
          /\ \A k \in 0..4 :
                speaker_order[k + 1] = seating_order[((leader_index + k) % 5) + 1]
          /\ Len(conversation) = iter
    /\ pc \in {"discussion", "collect_votes", "voted", "collect_quest_cards"} =>
          \A i \in 1..Len(conversation) :
              conversation[i] = seating_order[((leader_index + i - 1) % 5) + 1]
    /\ pc \in {"collect_votes", "voted", "collect_quest_cards"} =>
          Len(conversation) = 15

\* C13 happens: the discussion of a round whose leader is not at the first
\* seat is over, and it went from the leader round the table past the last
\* seat back to the first, three times
C13_Witness ==
    /\ pc = "collect_votes"
    /\ leader_index = 1
    /\ Len(conversation) = 15
    /\ conversation[1] = current_leader
    /\ conversation[1] = seating_order[2]
    /\ conversation[4] = seating_order[5]
    /\ conversation[5] = seating_order[1]
    /\ conversation[6] = seating_order[2]
    /\ conversation[15] = seating_order[1]

\* C14 as claimed: a game exists only for a list of five players; the
\* construction from any other list has failed and left no players and roles.
C14_WrongSizeFails ==
    players # <<>> =>
        /\ Len(players) = 5
        /\ DOMAIN roles = Range(players)

\* the result run_quest_round returns when evil has its third failed quest
QuestLossResult == WinCheck([good |-> 0, evil |-> 3])

\* C15 as claimed: a complete game has a terminal result, and the result of
\* a game lost by five consecutive rejections is not the result of a game
\* lost by three failed quests.
C15_ResultTellsHowGameEnded ==
    pc = "complete" =>
        /\ game_result # None
        /\ consecutive_rejections = 5 => game_result # QuestLossResult
        /\ quest_score.evil = 3 => game_result = QuestLossResult

\* calls of run_quest_round made so far: each appended a round record, but
\* for the call that met the rejection limit
Calls ==
    Len(rounds) + (IF result = "evil_wins" /\ quest_score.evil < 3 THEN 1 ELSE 0)

\* C16: whatever the votes and the quest cards are, the game run reaches a
\* terminal result and is complete, and it has made at most 25 calls of
\* run_quest_round, each step of the loop being one call.
C16_Terminates ==
    /\ <>(pc = "complete" /\ game_result # None)
    /\ [](Calls <= 25)
    /\ [][pc = "loop" => Calls' = Calls + 1]_vars

\* C16 happens: a game is complete after exactly 25 calls of run_quest_round
C16_Witness ==
    /\ pc = "complete"
    /\ game_result # None
    /\ Calls = 25

\* C17 as claimed: every rejected proposal has appended a round record with
\* no quest outcome, the one that ends the game too: while the counter is not
\* 0 the last record is that of the last rejection and carries the counter.
C17_EveryRejectionRecorded ==
    consecutive_rejections > 0 =>
        /\ Len(rounds) > 0
        /\ rounds[Len(rounds)].vote_result = "rejected"
        /\ rounds[Len(rounds)].quest_outcome = NoOutcome
        /\ rounds[Len(rounds)].consecutive_rejections = consecutive_rejections
        /\ Cardinality({i \in 1..Len(rounds) :
                            rounds[i].vote_result = "rejected"})
               >= consecutive_rejections

\* this step is a call of run_quest_round whose vote had the given result
RoundWith(vr) == pc = "loop" /\ vote_result' = vr

\* C18: a step that rejects a proposal below the limit leaves current_quest,
\* quest_score, roles and seating_order as they are and moves the leader on
\* by exactly one seat, and the main loop goes on; so the record after a
\* rejected one is for the same quest and team size, under the next leader.
C18_RejectionKeepsQuest ==
    /\ [][(RoundWith("rejected") /\ consecutive_rejections' < 5) =>
            /\ current_quest' = current_quest
            /\ quest_score' = quest_score
            /\ roles' = roles
            /\ seating_order' = seating_order
            /\ leader_index' = (leader_index + 1) % 5
            /\ current_leader' = seating_order[leader_index' + 1]
            /\ current_leader' # current_leader
            /\ pc' = "loop"
            /\ quest_requirements[current_quest'] =
                   quest_requirements[current_quest]]_vars
    /\ [](\A i \in 1..(Len(rounds) - 1) :
             rounds[i].vote_result = "rejected" =>
                 /\ rounds[i + 1].quest_number = rounds[i].quest_number
                 /\ rounds[i + 1].team_size_required =
                        rounds[i].team_size_required
                 /\ rounds[i + 1].leader =
                        seating_order[((SeatIndex(rounds[i].leader) + 1) % 5) + 1])

\* C18 happens: after a failed quest a proposal for quest 2 was rejected and
\* the next round, under the next leader, was for quest 2 and three players
C18_Witness ==
    /\ Len(rounds) = 3
    /\ rounds[2].vote_result = "rejected"
    /\ rounds[2].quest_number = 2
    /\ rounds[3].quest_number = 2
    /\ rounds[3].team_size_required = 3
    /\ rounds[2].leader = seating_order[2]
    /\ rounds[3].leader = seating_order[3]
    /\ quest_score = [good |-> 0, evil |-> 1]

\* C19: a step whose proposal is approved runs the quest in the same step: it
\* adds one to exactly one of good and evil, as the quest outcome says,
\* appends exactly one round record, with the outcome of the quest, moves
\* current_quest on by one and the leader by one seat, and its result is the
\* win check of the score after the update.
C19_ApprovedRoundRunsQuest ==
    [][RoundWith("approved") =>
          /\ Len(rounds') = Len(rounds) + 1
          /\ SubSeq(rounds', 1, Len(rounds)) = rounds
          /\ rounds'[Len(rounds')].vote_result = "approved"
          /\ rounds'[Len(rounds')].quest_outcome.result \in {"success", "fail"}
          /\ rounds'[Len(rounds')].quest_outcome.result = "success" =>
                 quest_score' = [good |-> quest_score.good + 1,
                                 evil |-> quest_score.evil]
          /\ rounds'[Len(rounds')].quest_outcome.result = "fail" =>
                 quest_score' = [good |-> quest_score.good,
                                 evil |-> quest_score.evil + 1]
          /\ current_quest' = current_quest + 1
          /\ leader_index' = (leader_index + 1) % 5
          /\ current_leader' = seating_order[leader_index' + 1]
          /\ result' = "good_wins_quests" <=> quest_score'.good >= 3
          /\ result' = "evil_wins" <=> quest_score'.evil >= 3
          /\ result' = "continue" <=>
                 (quest_score'.good < 3 /\ quest_score'.evil < 3)
          /\ pc' = "loop" <=> result' = "continue"]_vars

\* C19 happens: the approved quest that gave good its third success, after a
\* failed one, has been recorded and has ended the loop
C19_Witness ==
    /\ pc = "end_game"
    /\ result = "good_wins_quests"
    /\ vote_result = "approved"
    /\ quest_score = [good |-> 3, evil |-> 1]
    /\ current_quest = 5
    /\ Len(rounds) = 4
    /\ rounds[4].quest_outcome.result = "success"
    /\ leader_index = 4

\* C20: whenever a round can start, current_quest is one of the quests 1..5
\* that quest_requirements has a team size for, and so is the quest of every
\* record; a round for quest 5 starts at a score of 2-2 only, and once
\* current_quest is 6 one side has three quests and the loop is over.
C20_QuestInRange ==
    pc # "start" =>
        /\ current_quest \in 1..6
        /\ pc = "loop" => current_quest \in DOMAIN quest_requirements
        /\ DOMAIN quest_requirements = 1..5
        /\ (pc = "loop" /\ current_quest = 5) =>
               quest_score = [good |-> 2, evil |-> 2]
        /\ current_quest = 6 =>
               /\ pc \in {"end_game", "complete"}
               /\ quest_score.good + quest_score.evil = 5
               /\ quest_score.good = 3 \/ quest_score.evil = 3
        /\ \A i \in 1..Len(rounds) : rounds[i].quest_number \in 1..5

\* C20 happens: a game is complete whose quest 5, started at 2-2 and rejected
\* four times, decided it
C20_Witness ==
    /\ pc = "complete"
    /\ current_quest = 6
    /\ Len(rounds) >= 6
    /\ rounds[Len(rounds)].quest_number = 5
    /\ rounds[Len(rounds) - 1].quest_number = 5
    /\ rounds[Len(rounds) - 1].consecutive_rejections = 4
    /\ quest_score = [good |-> 2, evil |-> 3]

\* C21: each of good and evil is in 0..3 and the two are never both 3; the
\* score is (0,0) when the first round starts; the main loop goes on only
\* while both are below 3, and once either is 3 no step appends a round or
\* changes the score.
C21_ScoreRange ==
    /\ [](/\ quest_score.good \in 0..3
          /\ quest_score.evil \in 0..3
          /\ ~(quest_score.good = 3 /\ quest_score.evil = 3)
          /\ (pc = "loop" /\ Len(rounds) = 0) =>
                 quest_score = [good |-> 0, evil |-> 0]
          /\ pc = "loop" => (quest_score.good < 3 /\ quest_score.evil < 3)
          /\ (quest_score.good = 3 \/ quest_score.evil = 3) =>
                 pc \in {"end_game", "complete"})
    /\ [][(quest_score.good = 3 \/ quest_score.evil = 3) =>
             /\ rounds' = rounds
             /\ quest_score' = quest_score
             /\ current_quest' = current_quest]_vars

\* C21 happens: a game is complete at 3-2, and its end left the rounds and
\* the score alone
C21_Witness ==
    /\ pc = "complete"
    /\ quest_score = [good |-> 3, evil |-> 2]
    /\ Len(rounds) >= 5
    /\ rounds[Len(rounds)].quest_outcome.result = "success"

\* C22: the proposed team of every round record is a list of players of the
\* game without repetition, as long as team_size_required, which is the
\* entry of the quest table for the record's quest_number.
C22_TeamsValid ==
    \A i \in 1..Len(rounds) :
        /\ Range(rounds[i].proposed_team) \subseteq Range(players)
        /\ Cardinality(Range(rounds[i].proposed_team)) =
               Len(rounds[i].proposed_team)
        /\ Len(rounds[i].proposed_team) = rounds[i].team_size_required
        /\ rounds[i].quest_number \in 1..5
        /\ rounds[i].team_size_required =
               <<2, 3, 2, 3, 3>>[rounds[i].quest_number]

\* C22 happens: a game has records for all five quests, with teams of two for
\* quests 1 and 3 and of three for quests 2, 4 and 5
C22_Witness ==
    /\ Len(rounds) >= 5
    /\ {rounds[i].quest_number : i \in 1..Len(rounds)} = 1..5
    /\ \E i \in 1..Len(rounds) :
          /\ rounds[i].quest_number = 3
          /\ Len(rounds[i].proposed_team) = 2
    /\ \E i \in 1..Len(rounds) :
          /\ rounds[i].quest_number = 5
          /\ rounds[i].vote_result = "rejected"
          /\ Len(rounds[i].proposed_team) = 3

\* C23: inside a round a step changes the round history, the public log, the
\* rejection counter or the leader only when the votes of all players have
\* been collected, and the vote is counted only then; a step changes the
\* quest score, the quest number or the full log only when the card of every
\* team member has been collected as well.
C23_CollectedBeforeActedOn ==
    /\ [][pc # "start" =>
            /\ (\/ rounds' # rounds
                \/ public_log' # public_log
                \/ consecutive_rejections' # consecutive_rejections
                \/ leader_index' # leader_index
                \/ current_leader' # current_leader
                \/ vote_result' # vote_result) =>
                   /\ pc \in {"collect_votes", "voted", "collect_quest_cards"}
                   /\ DOMAIN votes = Range(players)
            /\ (\/ quest_score' # quest_score
                \/ current_quest' # current_quest
                \/ full_log' # full_log) =>
                   /\ pc = "collect_quest_cards"
                   /\ DOMAIN votes = Range(players)
                   /\ DOMAIN quest_cards = Range(proposed_team)
                   /\ rounds'[Len(rounds')].quest_outcome =
                          QuestOutcome(quest_cards)]_vars
    /\ [](pc = "voted" => DOMAIN votes = Range(players))

\* C23 happens: in the second round four of the five votes are in, three of
\* them rejections that decide the vote, and the history, the public log, the
\* counter and the leader are still those the first round left
C23_Witness ==
    /\ pc = "collect_votes"
    /\ iter = 4
    /\ Count(votes, "reject") = 3
    /\ Len(rounds) = 1
    /\ public_log.rounds = rounds
    /\ consecutive_rejections = 1
    /\ public_log.consecutive_rejections = 1
    /\ leader_index = 1

\* C24 as claimed: after every completed round the public log and the full
\* log have one round record each for it: both lists of rounds are as long as
\* the round history.
C24_BothLogsGrow ==
    pc \in {"loop", "end_game", "complete"} =>
        /\ Len(public_log.rounds) = Len(rounds)
        /\ Len(full_log.rounds) = Len(rounds)

\* the records of approved proposals in the round history
Approved == {i \in 1..Len(rounds) : rounds[i].vote_result = "approved"}

\* C25: between rounds the quests won by good and by evil add up to
\* current_quest - 1, which is the number of approved records, and each quest
\* 1 .. current_quest - 1 has exactly one approved record, no later quest any.
C25_ScoreCountsQuests ==
    pc \in {"loop", "end_game", "complete"} =>
        /\ quest_score.good + quest_score.evil = current_quest - 1
        /\ Cardinality(Approved) = current_quest - 1
        /\ \A q \in 1..(current_quest - 1) :
              Cardinality({i \in Approved : rounds[i].quest_number = q}) = 1
        /\ \A i \in Approved : rounds[i].quest_number < current_quest
        /\ quest_score.good = Cardinality(QuestsWith(rounds, "success"))
        /\ quest_score.evil = Cardinality(QuestsWith(rounds, "fail"))

\* C25 happens: between two rounds of quest 4, after rejections in several
\* quests, three quests are scored and have one approved record each
C25_Witness ==
    /\ pc = "loop"
    /\ current_quest = 4
    /\ quest_score = [good |-> 2, evil |-> 1]
    /\ Cardinality(Approved) = 3
    /\ Len(rounds) >= 7
    /\ consecutive_rejections = 2

\* the recorded rejected proposals for the given quest
RejectedFor(q) ==
    {i \in 1..Len(rounds) :
        rounds[i].quest_number = q /\ rounds[i].vote_result = "rejected"}

\* C26: a step that changes current_quest leaves consecutive_rejections at 0;
\* between rounds the counter is the number of rejected proposals made for
\* the current quest (all of them on record but the fifth, which ends the
\* game), and they are the last records of the history; so the five
\* rejections that end a game are all for one quest.
C26_CounterPerQuest ==
    /\ [][current_quest' # current_quest => consecutive_rejections' = 0]_vars
    /\ [](pc \in {"loop", "end_game", "complete"} =>
            /\ Cardinality(RejectedFor(current_quest)) =
                   IF consecutive_rejections = 5
                   THEN 4
                   ELSE consecutive_rejections
            /\ RejectedFor(current_quest) =
                   (Len(rounds) - Cardinality(RejectedFor(current_quest)) + 1)
                       ..Len(rounds)
            /\ \A i \in RejectedFor(current_quest) :
                   rounds[i].consecutive_rejections =
                       i - (Len(rounds) - Cardinality(RejectedFor(current_quest))))

\* C26 happens: a game was ended by five rejections for quest 3, after quests
\* 1 and 2 had seen rejections of their own
C26_Witness ==
    /\ pc = "complete"
    /\ consecutive_rejections = 5
    /\ current_quest = 3
    /\ Cardinality(RejectedFor(3)) = 4
    /\ Cardinality(RejectedFor(1)) = 2
    /\ Cardinality(RejectedFor(2)) = 3

====
